---- MODULE Spec2Model ----
(***************************************************************************)
(* The PinkSync accessibility event broker (api/main.py, "Broker v1"):     *)
(* the four module-level stores, the handlers accept_event,                *)
(* list_capabilities, create_subscription and get_compliance, and the      *)
(* external violation feed the compliance report reads.                    *)
(*                                                                         *)
(* Every handler is an `async def` without an await: the event loop runs   *)
(* its body from the first line to the return without switching to another *)
(* request, so one handler call is one step of the model.                  *)
(***************************************************************************)
EXTENDS Integers, Sequences, FiniteSets, Bags, TLC

(***************************************************************************)
(* Bounds of the model.                                                    *)
(***************************************************************************)
MaxEvents == 3
MaxClock == 1
MaxViolations == 1
MaxSubscribeCalls == 2
MaxInflight == 2
DeepMaxEvents == 201
MaxVerifications == 2
MaxBatch == 2
MaxUsed == 102
MaxShallow == 2
MaxRequests == 3

(***************************************************************************)
(* Inputs.                                                                 *)
(***************************************************************************)
AppIds == {"app-a", "app-b"}
Intents ==
    {"visual_only", "sign_language", "reduced_motion", "high_contrast",
     "captions_mandatory", "no_audio_cues", "visual_alerts", "text_primary"}
\* The app_ids the observers keep a record for: AppIds and the shortest and
\* the longest app_id validation admits.
ObservedAppIds ==
    AppIds \cup {"app", "aaaaaaaaaaaaaaaaaaaaaaaaaaaaaaaaaaaaaaaaaaaaaaaaaaaaaaaaaaaaaaaa"}
ClientTimestamps == {1, 2}
ConsumerIds == {"consumer-x", "consumer-y"}
Severities == {"critical", "warning", "info"}

\* Python's None and a present Optional value.
None == <<>>
Some(x) == <<x>>

\* AccessibilityEvent bodies that pass validation (models/broker.py).
AccessibilityEvent(app_id, intent, timestamp) ==
    [app_id |-> app_id, intent |-> intent, timestamp |-> timestamp]

Events ==
    {AccessibilityEvent(a, i, t) :
        a \in AppIds, i \in Intents \cap {"visual_only"}, t \in ClientTimestamps}

\* SubscriptionRequest bodies (models/broker.py).
SubscriptionRequest(consumer_id, event_types) ==
    [consumer_id |-> consumer_id, event_types |-> event_types,
     webhook_url |-> None, filter |-> None]

\* SubscriptionFilter (models/broker.py): three Optional lists.
SubscriptionFilter(app_ids, intents, compliance_levels) ==
    [app_ids |-> app_ids, intents |-> intents, compliance_levels |-> compliance_levels]

\* A SubscriptionRequest body that carries a filter.
FilteredSubscriptionRequest(consumer_id, event_types, filter) ==
    [SubscriptionRequest(consumer_id, event_types) EXCEPT !.filter = Some(filter)]

SubscriptionRequests ==
    {SubscriptionRequest(c, ts) : c \in ConsumerIds,
                                  ts \in {<<"visual_only">>,
                                          <<"visual_only", "captions_mandatory">>}}

(***************************************************************************)
(* State.                                                                  *)
(***************************************************************************)
VARIABLES
    events_store,          \* list of event records, main.py:158
    capabilities_store,    \* list of AppCapability, main.py:159
    subscriptions_store,   \* list of subscription records, main.py:160
    compliance_store,      \* dict app_id -> tracking entry, main.py:161
    now,                   \* the wall clock datetime.utcnow() reads
    inflight,              \* requests received and not yet run by the event loop
    response,              \* what the last step returned to its caller
    accepted,              \* per app_id, the submit calls answered "accepted", in order
    sub_log,               \* per consumer_id, the outcomes of its create_subscription calls
    last_report,           \* per app_id, level and certificate of its last report
    signing,               \* what a verifier computed, with the arguments it took
    running,               \* the accept_event run in progress, statement by statement
    subscriptions,         \* StripeSubscriptionService.subscriptions, stripe_subscription.py:37
    usage,                 \* StripeSubscriptionService.usage, stripe_subscription.py:38
    tickets                \* how many requests were received, and which was answered last

vars == <<events_store, capabilities_store, subscriptions_store, compliance_store,
          now, inflight, response, accepted, sub_log, last_report, signing, running,
          subscriptions, usage, tickets>>

stores == <<events_store, capabilities_store, subscriptions_store, compliance_store>>

\* The two dicts of the billing service.
stripe == <<subscriptions, usage>>

\* What the handlers taken as single steps leave alone.
aside == <<signing, running, stripe, tickets>>

NoResponse == [op |-> "none", code |-> 0]

Init ==
    /\ events_store = <<>>
    /\ capabilities_store = <<>>
    /\ subscriptions_store = <<>>
    /\ compliance_store = <<>>
    /\ now = 0
    /\ inflight = EmptyBag
    /\ response = NoResponse
    /\ accepted = [a \in ObservedAppIds |-> <<>>]
    /\ sub_log = [c \in ConsumerIds |-> <<>>]
    /\ last_report = [a \in ObservedAppIds |-> None]
    /\ signing = <<>>
    /\ running = None
    /\ subscriptions = <<>>
    /\ usage = <<>>
    /\ tickets = [issued |-> 0, answered |-> None]

(***************************************************************************)
(* Helpers on lists and dicts.                                             *)
(***************************************************************************)
\* key in d
HasKey(d, k) == k \in DOMAIN d

\* d[k] = v
SetKey(d, k, v) == [x \in (DOMAIN d) \cup {k} |-> IF x = k THEN v ELSE d[x]]

IsPrefix(s, t) == Len(s) <= Len(t) /\ SubSeq(t, 1, Len(s)) = s

(***************************************************************************)
(* accept_event, POST /v1/events (main.py:168-215).                        *)
(***************************************************************************)
\* Mutant: an identifier generator that returns the same value every time.
UuidFixed(kind, drawn) == kind \o "-1"

\* str(uuid.uuid4()): a value no earlier call returned. The n-th value a
\* handler draws is the token "<kind>-n".
Uuid4(kind, drawn) == kind \o "-" \o ToString(drawn + 1)

\* str(datetime) as an f-string renders it, "YYYY-MM-DD HH:MM:SS": a timestamp
\* t is the datetime t seconds into 1970-01-01, t < 60.
DatetimeStr(t) ==
    "1970-01-01 00:00:" \o (IF t < 10 THEN "0" ELSE "") \o ToString(t)

\* Mutant: the signed data salted with the position the record gets in the log.
SignatureDataSalted(event_id, event) ==
    event_id \o ":" \o event.app_id \o ":" \o event.intent \o ":"
             \o DatetimeStr(event.timestamp) \o ":" \o ToString(Len(events_store))

\* Mutant: the intent left out of the signed data.
SignatureDataNoIntent(event_id, event) ==
    event_id \o ":" \o event.app_id \o ":" \o DatetimeStr(event.timestamp)

\* f"{event_id}:{event.app_id}:{event.intent}:{event.timestamp}"
SignatureData(event_id, event) ==
    event_id \o ":" \o event.app_id \o ":" \o event.intent \o ":"
             \o DatetimeStr(event.timestamp)

\* hashlib.sha256(data.encode()).hexdigest(): a function of the bytes alone,
\* taken as collision free.
Sha256Hex(data) == "sha256(" \o data \o ")"

\* Mutant: the record carries a signature over processed_at in place of the
\* event's timestamp.
EventRecordSignedAtProcessing(event_id, event, processed_at, signature) ==
    [event_id |-> event_id, event |-> event, processed_at |-> processed_at,
     signature |->
        Sha256Hex(SignatureData(event_id, [event EXCEPT !.timestamp = processed_at]))]

EventRecord(event_id, event, processed_at, signature) ==
    [event_id |-> event_id, event |-> event,
     processed_at |-> processed_at, signature |-> signature]

\* Mutant: the log kept in client-timestamp order (insert before the first
\* record with a later timestamp).
StoreEventByTimestamp(store, event_record) ==
    LET earlier(r) == r.event.timestamp <= event_record.event.timestamp
        later(r) == r.event.timestamp > event_record.event.timestamp
    IN  SelectSeq(store, earlier) \o <<event_record>> \o SelectSeq(store, later)

\* Mutant: a log that keeps the two newest records only.
StoreEventCapped(store, event_record) ==
    IF Len(store) >= 2 THEN Tail(store) \o <<event_record>>
    ELSE Append(store, event_record)

\* events_store.append(event_record)
StoreEvent(store, event_record) == Append(store, event_record)

\* Mutant: the entry created with the first event already counted.
NewTrackingCounted == [events_count |-> 1, violations |-> <<>>, last_event |-> None]

\* {"events_count": 0, "violations": [], "last_event": None}
NewTracking == [events_count |-> 0, violations |-> <<>>, last_event |-> None]

\* compliance_store[app_id]["events_count"] += 1
IncrementCount(events_count) == events_count + 1

\* Mutant: the increment placed inside the `if`, so only the first event of an
\* application is counted.
TrackEventFirstOnly(store, app_id, at) ==
    LET counted == IF ~HasKey(store, app_id)
                   THEN SetKey(store, app_id,
                               [NewTracking EXCEPT !.events_count = IncrementCount(@)])
                   ELSE store
    IN  SetKey(counted, app_id, [counted[app_id] EXCEPT !.last_event = Some(at)])

\* Mutant: the `if app_id not in compliance_store` test left out, so every event
\* starts the entry afresh.
TrackEventReset(store, app_id, at) ==
    LET created == SetKey(store, app_id, NewTracking)
        counted == SetKey(created, app_id,
                     [created[app_id] EXCEPT
                        !.events_count = IncrementCount(@)])
    IN  SetKey(counted, app_id, [counted[app_id] EXCEPT !.last_event = Some(at)])

\* Mutant: the entries of all applications are one shared object, so counting
\* an event of one application counts it for every tracked application.
TrackEventShared(store, app_id, at) ==
    LET created == IF ~HasKey(store, app_id)
                   THEN SetKey(store, app_id, NewTracking)
                   ELSE store
    IN  [x \in DOMAIN created |->
            [created[x] EXCEPT !.events_count = IncrementCount(@),
                               !.last_event = Some(at)]]

\* Mutant: the entry rebuilt on every event from the count alone, which drops
\* the violations it held.
TrackEventRebuilt(store, app_id, at) ==
    LET created == IF ~HasKey(store, app_id)
                   THEN SetKey(store, app_id, NewTracking)
                   ELSE store
    IN  SetKey(created, app_id,
               [NewTracking EXCEPT
                  !.events_count = IncrementCount(created[app_id].events_count),
                  !.last_event = Some(at)])

\* "Update compliance tracking": create the entry on the first event, count
\* the event, stamp last_event.
TrackEvent(store, app_id, at) ==
    LET created == IF ~HasKey(store, app_id)
                   THEN SetKey(store, app_id, NewTracking)
                   ELSE store
        counted == SetKey(created, app_id,
                     [created[app_id] EXCEPT
                        !.events_count = IncrementCount(@)])
    IN  SetKey(counted, app_id, [counted[app_id] EXCEPT !.last_event = Some(at)])

EventResponse(event_id, status, timestamp, signature) ==
    [event_id |-> event_id, status |-> status, timestamp |-> timestamp,
     signature |-> signature, ledger_id |-> None]

\* The three datetime.utcnow() calls of one handler run: the clock never runs
\* backwards and may advance between any two calls.
ClockReads(t1, t2, t3) == now <= t1 /\ t1 <= t2 /\ t2 <= t3

\* The requests of kind `op` for `key` (an app_id, a consumer_id) that were
\* received and have not run yet.
InflightFor(op, key) ==
    LET same == {r \in BagToSet(inflight) : r.op = op /\ r.key = key}
    IN  BagCardinality([r \in same |-> inflight[r]])

\* The observer's record of accepted responses: the event_id answered, and how
\* many other submit calls of the same app_id were waiting when this one ran.
ObserveAccepted(app_id, resp, waiting) ==
    IF resp.code = 201 /\ resp.body.status = "accepted"
    THEN [accepted EXCEPT ![app_id] =
            Append(@, [event_id |-> resp.body.event_id, waiting |-> waiting])]
    ELSE accepted

accept_event(event, waiting, t1, t2, t3) ==
    LET event_id == Uuid4("evt", Len(events_store))
        signature == Sha256Hex(SignatureData(event_id, event))
        event_record == EventRecord(event_id, event, t1, signature)
        resp == [op |-> "accept_event", code |-> 201,
                 body |-> EventResponse(event_id, "accepted", t3, signature)]
    IN  /\ events_store' = StoreEvent(events_store, event_record)
        /\ compliance_store' = TrackEvent(compliance_store, event.app_id, t2)
        /\ now' = t3
        /\ response' = resp
        /\ accepted' = ObserveAccepted(event.app_id, resp, waiting)
        /\ UNCHANGED <<capabilities_store, subscriptions_store, sub_log, last_report>>

\* The consumers the handler matches an accepted event to: accept_event reads
\* neither subscriptions_store nor any subscription's event_types or filter,
\* so it hands the event to no consumer.
MatchedConsumers(event) == {}

\* One call with an event of `events`, while the log holds fewer than
\* `max_events` records and the clock reads at most `max_clock`.
SubmitEvent(events, max_events, max_clock) ==
    \E event \in events, t1, t2, t3 \in 0..max_clock :
        /\ Len(events_store) < max_events
        /\ ClockReads(t1, t2, t3)
        /\ accept_event(event, 0, t1, t2, t3)
        /\ UNCHANGED <<inflight, aside>>

(***************************************************************************)
(* Request validation of POST /v1/events: FastAPI builds the               *)
(* AccessibilityEvent from the request body and answers 422 without        *)
(* calling the handler when a field constraint fails (models/broker.py:    *)
(* 20-45). An app_id in a request body is a sequence of characters.        *)
(***************************************************************************)
AppIdMinLength == 3
AppIdMaxLength == 64

\* The characters of the class [a-zA-Z0-9_-].
AppIdAlphabet ==
    {"a", "b", "c", "d", "e", "f", "g", "h", "i", "j", "k", "l", "m",
     "n", "o", "p", "q", "r", "s", "t", "u", "v", "w", "x", "y", "z",
     "A", "B", "C", "D", "E", "F", "G", "H", "I", "J", "K", "L", "M",
     "N", "O", "P", "Q", "R", "S", "T", "U", "V", "W", "X", "Y", "Z",
     "0", "1", "2", "3", "4", "5", "6", "7", "8", "9", "_", "-"}

\* The string made of the characters of `chars`.
RECURSIVE Join(_)
Join(chars) == IF chars = <<>> THEN "" ELSE Head(chars) \o Join(Tail(chars))

\* pattern="^[a-zA-Z0-9_-]+$": one or more characters, all of the class.
MatchesAppIdPattern(chars) ==
    /\ Len(chars) >= 1
    /\ \A i \in 1..Len(chars) : chars[i] \in AppIdAlphabet

\* Mutant: the min_length constraint left out.
ValidAppIdNoMinLength(chars) ==
    /\ MatchesAppIdPattern(chars)
    /\ Len(chars) <= AppIdMaxLength

\* app_id: pattern, min_length=3, max_length=64.
ValidAppId(chars) ==
    /\ MatchesAppIdPattern(chars)
    /\ Len(chars) >= AppIdMinLength
    /\ Len(chars) <= AppIdMaxLength

\* intent: Literal[...] of the eight intents.
ValidIntent(intent) == intent \in Intents

ValidEvent(body) == ValidAppId(body.app_id) /\ ValidIntent(body.intent)

\* Request bodies of POST /v1/events: app_ids at and around the length limits
\* and with characters in and out of the class, intents in and out of the enum.
RawShort == <<"a", "p">>
RawMin == <<"a", "p", "p">>
RawMax == [i \in 1..AppIdMaxLength |-> "a"]
RawLong == [i \in 1..(AppIdMaxLength + 1) |-> "a"]
RawSpace == <<"a", "p", "p", " ", "a">>
RawColon == <<"a", "p", "p", ":", "a">>
RawDot == <<"a", "p", "p", ".", "a">>
RawEmpty == <<>>

RawAppIds ==
    {<<"a", "p", "p", "-", "a">>, <<"a", "p", "p", "-", "b">>,
     RawShort, RawMin, RawMax, RawLong, RawSpace, RawColon, RawDot, RawEmpty}

RawIntents == {"visual_only", "Visual_Only", "audio_only", ""}

RawEvents ==
    {[app_id |-> a, intent |-> i, timestamp |-> 1] :
        a \in RawAppIds, i \in RawIntents}

\* One request: the body is validated, then the handler runs on the event
\* built from it, or the caller gets 422 and the handler does not run.
post_events(body, t1, t2, t3) ==
    IF ValidEvent(body)
    THEN accept_event(AccessibilityEvent(Join(body.app_id), body.intent,
                                         body.timestamp), 0, t1, t2, t3)
    ELSE /\ response' = [op |-> "accept_event", code |-> 422, detail |-> body]
         /\ UNCHANGED <<stores, now, accepted, sub_log, last_report>>

PostEvent(bodies, max_events, max_clock) ==
    \E body \in bodies, t1, t2, t3 \in 0..max_clock :
        /\ Len(events_store) < max_events
        /\ ClockReads(t1, t2, t3)
        /\ post_events(body, t1, t2, t3)
        /\ UNCHANGED <<inflight, aside>>

(***************************************************************************)
(* create_subscription, POST /v1/subscribe (main.py:247-284).              *)
(***************************************************************************)
\* Mutant: only the newest record is compared.
ExistingSubscriptionsLastOnly(store, consumer_id) ==
    IF store # <<>> /\ store[Len(store)].subscription.consumer_id = consumer_id
    THEN <<store[Len(store)]>>
    ELSE <<>>

\* Mutant: the record's subscription_id is compared with the consumer_id.
ExistingSubscriptionsWrongKey(store, consumer_id) ==
    LET same(s) == s.subscription_id = consumer_id
    IN  SelectSeq(store, same)

\* [s for s in subscriptions_store if s["subscription"]["consumer_id"] == consumer_id]
ExistingSubscriptions(store, consumer_id) ==
    LET same(s) == s.subscription.consumer_id = consumer_id
    IN  SelectSeq(store, same)

SubscriptionRecord(subscription_id, subscription, created_at) ==
    [subscription_id |-> subscription_id, subscription |-> subscription,
     created_at |-> created_at, status |-> "active"]

\* subscriptions_store.append(subscription_record)
StoreSubscription(store, subscription_record) == Append(store, subscription_record)

SubscriptionResponse(subscription_id, created_at) ==
    [subscription_id |-> subscription_id, status |-> "active",
     created_at |-> created_at, expires_at |-> None]

\* The observer's record of create_subscription outcomes: the status code and
\* how many other requests of the same consumer_id were waiting when it ran.
ObserveSubscribe(consumer_id, code, waiting) ==
    [sub_log EXCEPT ![consumer_id] = Append(@, [code |-> code, waiting |-> waiting])]

create_subscription(subscription, waiting, t1, t2) ==
    LET existing == ExistingSubscriptions(subscriptions_store, subscription.consumer_id)
        subscription_id == Uuid4("sub", Len(subscriptions_store))
    IN  IF existing # <<>>
        THEN /\ response' = [op |-> "create_subscription", code |-> 409,
                             detail |-> subscription.consumer_id]
             /\ sub_log' = ObserveSubscribe(subscription.consumer_id, 409, waiting)
             /\ UNCHANGED <<stores, now, accepted, last_report>>
        ELSE /\ subscriptions_store' =
                    StoreSubscription(subscriptions_store,
                        SubscriptionRecord(subscription_id, subscription, t1))
             /\ now' = t2
             /\ response' = [op |-> "create_subscription", code |-> 201,
                             body |-> SubscriptionResponse(subscription_id, t2)]
             /\ sub_log' = ObserveSubscribe(subscription.consumer_id, 201, waiting)
             /\ UNCHANGED <<events_store, capabilities_store, compliance_store,
                            accepted, last_report>>

Subscribe(requests, max_calls, max_clock) ==
    \E subscription \in requests, t1, t2 \in 0..max_clock :
        /\ Len(sub_log[subscription.consumer_id]) < max_calls
        /\ ClockReads(t1, t1, t2)
        /\ create_subscription(subscription, 0, t1, t2)
        /\ UNCHANGED <<inflight, aside>>

(***************************************************************************)
(* get_compliance, GET /v1/compliance/{app_id} (main.py:287-349).          *)
(***************************************************************************)
GoldThreshold == 200
SilverThreshold == 50
BronzeThreshold == 10

\* Mutant: the thresholds compared with > instead of >=.
ComplianceLevelStrict(events_count) ==
    IF events_count > GoldThreshold THEN "gold"
    ELSE IF events_count > SilverThreshold THEN "silver"
    ELSE "bronze"

\* Mutant: the silver and gold branches exchanged.
ComplianceLevelSwapped(events_count) ==
    IF events_count >= GoldThreshold THEN "silver"
    ELSE IF events_count >= SilverThreshold THEN "gold"
    ELSE "bronze"

\* "Determine compliance level based on events count"
ComplianceLevel(events_count) ==
    IF events_count >= GoldThreshold THEN "gold"
    ELSE IF events_count >= SilverThreshold THEN "silver"
    ELSE IF events_count >= BronzeThreshold THEN "bronze"
    ELSE "bronze"

\* Mutant: every violation that is not informational counts as critical.
CriticalViolationsNotInfo(violations) ==
    LET critical(v) == v.severity # "info"
    IN  SelectSeq(violations, critical)

\* [v for v in violations if v["severity"] == "critical"]
CriticalViolations(violations) ==
    LET critical(v) == v.severity = "critical"
    IN  SelectSeq(violations, critical)

\* "Determine status"
ComplianceStatus(violations) ==
    IF CriticalViolations(violations) # <<>> THEN "non-compliant" ELSE "compliant"

\* f"https://pinksync.org/certificates/{app_id}-{level}" if status == "compliant" else None
CertificateUrl(app_id, level, status) ==
    IF status = "compliant"
    THEN Some("https://pinksync.org/certificates/" \o app_id \o "-" \o level)
    ELSE None

\* Mutant: the certificate URL also carries the events_count.
ComplianceReportStamped(app_id, app_compliance, detailed) ==
    LET events_count == app_compliance.events_count
        level == ComplianceLevel(events_count)
        violations == app_compliance.violations
        status == ComplianceStatus(violations)
    IN  [app_id |-> app_id,
         compliance_level |-> level,
         status |-> status,
         last_audit |-> app_compliance.last_event,
         events_count |-> events_count,
         violations |-> IF detailed THEN violations ELSE <<>>,
         certificate_url |->
            IF status = "compliant"
            THEN Some("https://pinksync.org/certificates/" \o app_id
                        \o "-" \o level \o "-" \o ToString(events_count))
            ELSE None]

ComplianceReport(app_id, app_compliance, detailed) ==
    LET events_count == app_compliance.events_count
        level == ComplianceLevel(events_count)
        violations == app_compliance.violations
        status == ComplianceStatus(violations)
    IN  [app_id |-> app_id,
         compliance_level |-> level,
         status |-> status,
         last_audit |-> app_compliance.last_event,
         events_count |-> events_count,
         violations |-> IF detailed THEN violations ELSE <<>>,
         certificate_url |-> CertificateUrl(app_id, level, status)]

\* The observer's record of the last report of each app_id.
ObserveReport(app_id, report) ==
    [last_report EXCEPT ![app_id] =
        Some([compliance_level |-> report.compliance_level,
              certificate_url |-> report.certificate_url])]

\* Mutant: the entry read with a default, compliance_store.get(app_id, fresh
\* entry), so an application never heard of gets a report.
get_complianceDefaulted(app_id, detailed) ==
    LET app_compliance == IF HasKey(compliance_store, app_id)
                          THEN compliance_store[app_id]
                          ELSE NewTracking
        report == ComplianceReport(app_id, app_compliance, detailed)
    IN  /\ response' = [op |-> "get_compliance", code |-> 200, body |-> report]
        /\ last_report' = ObserveReport(app_id, report)
        /\ UNCHANGED <<stores, now, accepted, sub_log>>

\* Mutant: a query counted as an event of the application.
get_complianceCounting(app_id, detailed) ==
    IF ~HasKey(compliance_store, app_id)
    THEN /\ response' = [op |-> "get_compliance", code |-> 404, detail |-> app_id]
         /\ UNCHANGED <<stores, now, accepted, sub_log, last_report>>
    ELSE LET report == ComplianceReport(app_id, compliance_store[app_id], detailed)
         IN  /\ response' = [op |-> "get_compliance", code |-> 200, body |-> report]
             /\ last_report' = ObserveReport(app_id, report)
             /\ compliance_store' =
                    SetKey(compliance_store, app_id,
                           [compliance_store[app_id] EXCEPT
                              !.events_count = IncrementCount(@)])
             /\ UNCHANGED <<events_store, capabilities_store, subscriptions_store,
                            now, accepted, sub_log>>

get_compliance(app_id, detailed) ==
    IF ~HasKey(compliance_store, app_id)
    THEN /\ response' = [op |-> "get_compliance", code |-> 404, detail |-> app_id]
         /\ UNCHANGED <<stores, now, accepted, sub_log, last_report>>
    ELSE LET report == ComplianceReport(app_id, compliance_store[app_id], detailed)
         IN  /\ response' = [op |-> "get_compliance", code |-> 200, body |-> report]
             /\ last_report' = ObserveReport(app_id, report)
             /\ UNCHANGED <<stores, now, accepted, sub_log>>

GetCompliance(apps) ==
    \E app_id \in apps, detailed \in BOOLEAN :
        /\ get_compliance(app_id, detailed)
        /\ UNCHANGED <<inflight, aside>>

(***************************************************************************)
(* list_capabilities, GET /v1/capabilities (main.py:218-244).              *)
(***************************************************************************)
\* `if param:` on an Optional[str] query parameter: None and "" are both false.
Truthy(param) == param # None /\ param[1] # ""

\* "Apply filters": the copy of the store narrowed by each filter in turn.
FilteredCapabilities(store, app_id, compliance_level, intent) ==
    LET by_app(c) == c.app_id = app_id[1]
        by_level(c) == c.compliance_level = compliance_level[1]
        by_intent(c) == \E i \in 1..Len(c.capabilities) : c.capabilities[i] = intent[1]
        f1 == IF Truthy(app_id) THEN SelectSeq(store, by_app) ELSE store
        f2 == IF Truthy(compliance_level) THEN SelectSeq(f1, by_level) ELSE f1
        f3 == IF Truthy(intent) THEN SelectSeq(f2, by_intent) ELSE f2
    IN  f3

CapabilitiesResponse(capabilities) ==
    [capabilities |-> capabilities, total |-> Len(capabilities)]

\* Mutant: the request answered from a built-in sample declaration, as the
\* later handler registered on the same path answers from built-in data.
list_capabilitiesSample(app_id, compliance_level, intent) ==
    LET sample == <<[app_id |-> "app-a", capabilities |-> <<"visual_only">>,
                     compliance_level |-> "gold", version |-> "1.0.0",
                     registered_at |-> None]>>
        filtered_capabilities ==
            FilteredCapabilities(sample, app_id, compliance_level, intent)
    IN  /\ response' = [op |-> "list_capabilities", code |-> 200,
                        query |-> <<app_id, compliance_level, intent>>,
                        body |-> CapabilitiesResponse(filtered_capabilities)]
        /\ UNCHANGED <<stores, now, accepted, sub_log, last_report>>

\* The response carries the query it answers, for the observer.
list_capabilities(app_id, compliance_level, intent) ==
    LET filtered_capabilities ==
            FilteredCapabilities(capabilities_store, app_id, compliance_level, intent)
    IN  /\ response' = [op |-> "list_capabilities", code |-> 200,
                        query |-> <<app_id, compliance_level, intent>>,
                        body |-> CapabilitiesResponse(filtered_capabilities)]
        /\ UNCHANGED <<stores, now, accepted, sub_log, last_report>>

\* Query parameters: <<app_id, compliance_level, intent>>, each Optional: not
\* supplied, supplied, supplied empty (?app_id=).
UnfilteredQuery == <<None, None, None>>

CapabilityQueries ==
    {<<a, l, i>> : a \in {None, Some("app-a"), Some("app-c"), Some("")},
                   l \in {None, Some("gold"), Some("")},
                   i \in {None, Some("visual_only"), Some("")}}

ListCapabilities(queries) ==
    \E q \in queries :
        /\ list_capabilities(q[1], q[2], q[3])
        /\ UNCHANGED <<inflight, aside>>

(***************************************************************************)
(* The violation feed: an external auditor appends a Violation record to   *)
(* the violations list of an application the broker tracks (spec, 3 and 6).*)
(***************************************************************************)
RECURSIVE CountViolations(_, _)
CountViolations(store, apps) ==
    IF apps = {} THEN 0
    ELSE LET a == CHOOSE x \in apps : TRUE
         IN  Len(store[a].violations) + CountViolations(store, apps \ {a})

ViolationFeed(severities, max_violations) ==
    \E app_id \in DOMAIN compliance_store, severity \in severities :
        /\ CountViolations(compliance_store, DOMAIN compliance_store) < max_violations
        /\ compliance_store' =
              SetKey(compliance_store, app_id,
                     [compliance_store[app_id] EXCEPT
                        !.violations = Append(@, [type |-> "audit",
                                                  severity |-> severity,
                                                  timestamp |-> now])])
        /\ response' = NoResponse
        /\ UNCHANGED <<events_store, capabilities_store, subscriptions_store,
                       now, inflight, accepted, sub_log, last_report, aside>>

(***************************************************************************)
(* The broker under sequential callers: any handler, any input, any order. *)
(* Events are drawn widely, subscriptions narrowly.                        *)
(***************************************************************************)
Next ==
    \/ SubmitEvent(Events, MaxEvents, MaxClock)
    \/ Subscribe({SubscriptionRequest("consumer-x", <<"visual_only">>)},
                 MaxSubscribeCalls, 0)
    \/ GetCompliance(AppIds)
    \/ ListCapabilities({UnfilteredQuery})

Spec == Init /\ [][Next]_vars

(***************************************************************************)
(* One application from its first event past the gold threshold, with the  *)
(* violation feed.                                                         *)
(***************************************************************************)
DeepEvents == {AccessibilityEvent("app-a", "captions_mandatory", 1)}

NextDeep ==
    \/ SubmitEvent(DeepEvents, DeepMaxEvents, 0)
    \/ GetCompliance({"app-a"})
    \/ ViolationFeed(Severities, MaxViolations)

SpecDeep == Init /\ [][NextDeep]_vars

(***************************************************************************)
(* The four handlers and the violation feed, each drawn narrowly.          *)
(***************************************************************************)
NextFeed ==
    \/ SubmitEvent(DeepEvents, MaxEvents, 0)
    \/ Subscribe({SubscriptionRequest("consumer-x", <<"visual_only">>)},
                 MaxSubscribeCalls, 0)
    \/ GetCompliance({"app-a", "app-b"})
    \/ ListCapabilities({UnfilteredQuery})
    \/ ViolationFeed(Severities, MaxViolations)

SpecFeed == Init /\ [][NextFeed]_vars

(***************************************************************************)
(* Subscriptions drawn widely, events narrowly.                            *)
(***************************************************************************)
NextSubscribe ==
    \/ Subscribe(SubscriptionRequests, MaxSubscribeCalls, MaxClock)
    \/ SubmitEvent(DeepEvents, MaxEvents, MaxClock)
    \/ GetCompliance({"app-a"})
    \/ ListCapabilities({UnfilteredQuery})

SpecSubscribe == Init /\ [][NextSubscribe]_vars

(***************************************************************************)
(* Request bodies drawn widely, valid and invalid, with a frozen clock.    *)
(***************************************************************************)
NextValidate ==
    \/ PostEvent(RawEvents, MaxEvents, 0)
    \/ GetCompliance({"app-a", "app"})

SpecValidate == Init /\ [][NextValidate]_vars

(***************************************************************************)
(* The signed input as a function: a verifier computes it for two          *)
(* admissible argument tuples, an event_id the broker can draw, an app_id  *)
(* and an intent validation admits, a timestamp.                           *)
(***************************************************************************)
SignEventIds == {Uuid4("evt", n) : n \in {0, 1, 10}}
SignAppIds == {Join(c) : c \in {r \in RawAppIds : ValidAppId(r)}}
SignTimestamps == {1, 2, 12}

SignArguments ==
    {[event_id |-> id, event |-> AccessibilityEvent(a, i, t)] :
        id \in SignEventIds, a \in SignAppIds,
        i \in {x \in Intents : ValidIntent(x)}, t \in SignTimestamps}

Signed(arguments) ==
    [arguments |-> arguments,
     data |-> SignatureData(arguments.event_id, arguments.event)]

Sign(argument_tuples) ==
    /\ signing = <<>>
    /\ \E a, b \in argument_tuples : signing' = <<Signed(a), Signed(b)>>
    /\ UNCHANGED <<stores, now, inflight, response, accepted, sub_log, last_report,
                   running, stripe, tickets>>

NextSign == Sign(SignArguments)

SpecSign == Init /\ [][NextSign]_vars

(***************************************************************************)
(* One application up to the silver threshold, with a consumer subscribed  *)
(* to its events at level bronze.                                          *)
(***************************************************************************)
BronzeSubscription ==
    FilteredSubscriptionRequest("consumer-x", <<"captions_mandatory">>,
        SubscriptionFilter(None, None, Some(<<"bronze">>)))

NextMatch ==
    \/ SubmitEvent(DeepEvents, SilverThreshold, 0)
    \/ Subscribe({BronzeSubscription}, MaxSubscribeCalls, 0)

SpecMatch == Init /\ [][NextMatch]_vars

(***************************************************************************)
(* The capability registry. No route stores a declaration: the path        *)
(* /v1/capabilities is registered for GET alone (main.py:218 and 552), so  *)
(* a request that declares capabilities is answered 405 by the router.     *)
(***************************************************************************)
AppCapability(app_id, capabilities, compliance_level) ==
    [app_id |-> app_id, capabilities |-> capabilities,
     compliance_level |-> compliance_level, version |-> "1.0.0",
     registered_at |-> None]

Declarations ==
    {AppCapability("app-a", <<"visual_only", "captions_mandatory">>, "gold"),
     AppCapability("app-a", <<"captions_mandatory">>, "bronze"),
     AppCapability("app-b", <<"visual_only">>, "bronze"),
     AppCapability("app-b", <<>>, "gold")}

post_capabilities(declaration) ==
    /\ response' = [op |-> "declare_capabilities", code |-> 405,
                    request |-> declaration]
    /\ UNCHANGED <<stores, now, accepted, sub_log, last_report>>

DeclareCapabilities(declarations) ==
    \E declaration \in declarations :
        /\ post_capabilities(declaration)
        /\ UNCHANGED <<inflight, aside>>

NextRegistry ==
    \/ DeclareCapabilities(Declarations)
    \/ ListCapabilities(CapabilityQueries)
    \/ SubmitEvent(DeepEvents, MaxEvents, 0)

SpecRegistry == Init /\ [][NextRegistry]_vars

(***************************************************************************)
(* accept_event statement by statement (main.py:181-215): one run at a     *)
(* time, as the event loop runs it, each statement a step. `running` holds *)
(* the run's locals and the statement it executes next.                    *)
(***************************************************************************)
\* Mutant: the tracking update placed before the append.
AfterCountFirst(statement) ==
    CASE statement = "sign" -> "track"
      [] statement = "track" -> "count"
      [] statement = "count" -> "append"
      [] statement = "append" -> "stamp"
      [] statement = "stamp" -> "respond"

\* The statement that follows `statement` in the handler body.
After(statement) ==
    CASE statement = "sign" -> "append"
      [] statement = "append" -> "track"
      [] statement = "track" -> "count"
      [] statement = "count" -> "stamp"
      [] statement = "stamp" -> "respond"

AtStatement(statement) == running # None /\ running[1].statement = statement

Proceed(locals) ==
    Some([locals EXCEPT !.statement = After(locals.statement)])

\* The handler is entered with a validated event.
EnterAcceptEvent(events, max_events) ==
    \E event \in events :
        /\ running = None
        /\ Len(events_store) < max_events
        /\ running' = Some([statement |-> "sign", event |-> event,
                            event_id |-> "", signature |-> ""])
        /\ response' = NoResponse
        /\ UNCHANGED <<stores, now, inflight, accepted, sub_log, last_report, signing, stripe, tickets>>

\* main.py:182-186
SignStatement ==
    /\ AtStatement("sign")
    /\ LET event_id == Uuid4("evt", Len(events_store))
           signature == Sha256Hex(SignatureData(event_id, running[1].event))
       IN  running' = Proceed([running[1] EXCEPT !.event_id = event_id,
                                                 !.signature = signature])
    /\ UNCHANGED <<stores, now, inflight, response, accepted, sub_log, last_report,
                   signing, stripe, tickets>>

\* datetime.utcnow() read by a statement: a reading t not before the last
\* one, at most max_clock.
Reads(t, max_clock) == t \in now..max_clock

\* main.py:189-195, the clock read at line 192
AppendStatement(max_clock) ==
    \E t \in 0..max_clock :
        /\ AtStatement("append")
        /\ Reads(t, max_clock)
        /\ events_store' =
              StoreEvent(events_store,
                         EventRecord(running[1].event_id, running[1].event, t,
                                     running[1].signature))
        /\ now' = t
        /\ running' = Proceed(running[1])
        /\ UNCHANGED <<capabilities_store, subscriptions_store, compliance_store,
                       inflight, response, accepted, sub_log, last_report, signing,
                       stripe, tickets>>

\* main.py:198-203
TrackStatement ==
    /\ AtStatement("track")
    /\ compliance_store' =
          IF ~HasKey(compliance_store, running[1].event.app_id)
          THEN SetKey(compliance_store, running[1].event.app_id, NewTracking)
          ELSE compliance_store
    /\ running' = Proceed(running[1])
    /\ UNCHANGED <<events_store, capabilities_store, subscriptions_store, now,
                   inflight, response, accepted, sub_log, last_report, signing, stripe, tickets>>

\* main.py:204
CountStatement ==
    /\ AtStatement("count")
    /\ LET app_id == running[1].event.app_id
       IN  compliance_store' =
              SetKey(compliance_store, app_id,
                     [compliance_store[app_id] EXCEPT
                        !.events_count = IncrementCount(@)])
    /\ running' = Proceed(running[1])
    /\ UNCHANGED <<events_store, capabilities_store, subscriptions_store, now,
                   inflight, response, accepted, sub_log, last_report, signing, stripe, tickets>>

\* main.py:205
StampStatement(max_clock) ==
    \E t \in 0..max_clock :
        /\ AtStatement("stamp")
        /\ Reads(t, max_clock)
        /\ LET app_id == running[1].event.app_id
           IN  compliance_store' =
                  SetKey(compliance_store, app_id,
                         [compliance_store[app_id] EXCEPT !.last_event = Some(t)])
        /\ now' = t
        /\ running' = Proceed(running[1])
        /\ UNCHANGED <<events_store, capabilities_store, subscriptions_store,
                       inflight, response, accepted, sub_log, last_report, signing,
                       stripe, tickets>>

\* main.py:209-215, the clock read at line 212
RespondStatement(max_clock) ==
    \E t \in 0..max_clock :
        /\ AtStatement("respond")
        /\ Reads(t, max_clock)
        /\ LET resp == [op |-> "accept_event", code |-> 201,
                        body |-> EventResponse(running[1].event_id, "accepted", t,
                                               running[1].signature)]
           IN  /\ response' = resp
               /\ accepted' = ObserveAccepted(running[1].event.app_id, resp, 0)
        /\ now' = t
        /\ running' = None
        /\ UNCHANGED <<stores, inflight, sub_log, last_report, signing, stripe,
                       tickets>>

\* Between two runs of accept_event the other handlers run whole.
BetweenRuns(apps) ==
    /\ running = None
    /\ GetCompliance(apps)

NextSteps ==
    \/ EnterAcceptEvent(Events, MaxEvents)
    \/ SignStatement
    \/ AppendStatement(MaxClock)
    \/ TrackStatement
    \/ CountStatement
    \/ StampStatement(MaxClock)
    \/ RespondStatement(MaxClock)
    \/ BetweenRuns(AppIds)

SpecSteps == Init /\ [][NextSteps]_vars

(***************************************************************************)
(* The signature computed a second time: while accept_event runs statement *)
(* by statement, a verifier applies lines 185-186 to the four signed       *)
(* fields of a stored record, in whatever state the broker is in, and      *)
(* keeps what it obtained.                                                 *)
(***************************************************************************)
\* What one computation yields, with the record whose fields it took and the
\* length of the log when it ran.
Verification(i) ==
    [record |-> i, stored |-> Len(events_store),
     signature |-> Sha256Hex(SignatureData(events_store[i].event_id,
                                           events_store[i].event))]

VerifySignature(max_verifications) ==
    \E i \in 1..Len(events_store) :
        /\ Len(signing) < max_verifications
        /\ signing' = Append(signing, Verification(i))
        /\ UNCHANGED <<stores, now, inflight, response, accepted, sub_log,
                       last_report, running, stripe, tickets>>

\* Two bodies that differ in app_id and in the client's timestamp.
VerifyEvents ==
    {AccessibilityEvent("app-a", "visual_only", 1),
     AccessibilityEvent("app-b", "visual_only", 2)}

NextVerify ==
    \/ EnterAcceptEvent(VerifyEvents, MaxEvents)
    \/ SignStatement
    \/ AppendStatement(MaxClock)
    \/ TrackStatement
    \/ CountStatement
    \/ StampStatement(MaxClock)
    \/ RespondStatement(MaxClock)
    \/ BetweenRuns({"app-a"})
    \/ VerifySignature(MaxVerifications)

SpecVerify == Init /\ [][NextVerify]_vars

(***************************************************************************)
(* Concurrent callers: requests are received and wait; the event loop runs *)
(* the handler of any waiting request, one whole handler at a time.        *)
(***************************************************************************)
SubmitRequest(event) ==
    [op |-> "submit_event", key |-> event.app_id,
     event |-> Some(event), subscription |-> None]

SubscribeRequest(subscription) ==
    [op |-> "create_subscription", key |-> subscription.consumer_id,
     event |-> None, subscription |-> Some(subscription)]

ConcurrentRequests ==
    {SubmitRequest(AccessibilityEvent("app-a", "visual_only", 1)),
     SubmitRequest(AccessibilityEvent("app-b", "visual_only", 1)),
     SubscribeRequest(SubscriptionRequest("consumer-x", <<"visual_only">>))}

\* The waiting requests of kind `op`, whatever their key.
InflightOp(op) ==
    LET same == {r \in BagToSet(inflight) : r.op = op}
    IN  BagCardinality([r \in same |-> inflight[r]])

\* A request is received while fewer than `max_inflight` wait and the model's
\* bounds leave room to run it.
Receive(requests, max_inflight, max_events, max_calls) ==
    \E r \in requests :
        /\ BagCardinality(inflight) < max_inflight
        /\ r.op = "submit_event" =>
              Len(events_store) + InflightOp(r.op) < max_events
        /\ r.op = "create_subscription" =>
              Len(sub_log[r.key]) + InflightFor(r.op, r.key) < max_calls
        /\ inflight' = inflight (+) SetToBag({r})
        /\ response' = NoResponse
        /\ UNCHANGED <<stores, now, accepted, sub_log, last_report, aside>>

RunSubmitEvent(max_events, max_clock) ==
    \E r \in BagToSet(inflight), t1, t2, t3 \in 0..max_clock :
        /\ r.op = "submit_event"
        /\ Len(events_store) < max_events
        /\ ClockReads(t1, t2, t3)
        /\ accept_event(r.event[1], InflightFor(r.op, r.key) - 1, t1, t2, t3)
        /\ inflight' = inflight (-) SetToBag({r})
        /\ UNCHANGED aside

RunSubscribe(max_calls, max_clock) ==
    \E r \in BagToSet(inflight), t1, t2 \in 0..max_clock :
        /\ r.op = "create_subscription"
        /\ Len(sub_log[r.key]) < max_calls
        /\ ClockReads(t1, t1, t2)
        /\ create_subscription(r.subscription[1], InflightFor(r.op, r.key) - 1, t1, t2)
        /\ inflight' = inflight (-) SetToBag({r})
        /\ UNCHANGED aside

NextConcurrent ==
    \/ Receive(ConcurrentRequests, MaxInflight, MaxEvents, MaxSubscribeCalls)
    \/ RunSubmitEvent(MaxEvents, MaxClock)
    \/ RunSubscribe(MaxSubscribeCalls, MaxClock)

SpecConcurrent == Init /\ [][NextConcurrent]_vars

(***************************************************************************)
(* Concurrent callers of the four handlers, each request told apart by the *)
(* ticket it gets on arrival. The handlers are coroutines that never await *)
(* and take no lock: the event loop runs the handler of every request it   *)
(* has received, whatever else waits, and a handler that has started runs  *)
(* to its return.                                                          *)
(***************************************************************************)
ComplianceRequest(app_id) ==
    [op |-> "get_compliance", key |-> app_id,
     event |-> None, subscription |-> None]

CapabilitiesRequest ==
    [op |-> "list_capabilities", key |-> "",
     event |-> None, subscription |-> None]

LiveRequests ==
    {SubmitRequest(AccessibilityEvent("app-a", "visual_only", 1)),
     SubscribeRequest(SubscriptionRequest("consumer-x", <<"visual_only">>)),
     ComplianceRequest("app-a"),
     CapabilitiesRequest}

\* The tickets of the requests the model receives.
Tickets == 0..(MaxRequests - 1)

Ticketed(r, ticket) ==
    [op |-> r.op, key |-> r.key, event |-> r.event,
     subscription |-> r.subscription, ticket |-> ticket]

\* The request with ticket t is received and not yet run.
Waiting(t) == \E r \in BagToSet(inflight) : r.ticket = t

\* A request arrives, while fewer than `max_requests` have arrived, fewer
\* than `max_inflight` wait, and the model's bounds leave room to run it.
Arrive(requests, max_requests, max_inflight, max_events, max_calls) ==
    \E r \in requests :
        /\ tickets.issued < max_requests
        /\ BagCardinality(inflight) < max_inflight
        /\ r.op = "submit_event" =>
              Len(events_store) + InflightOp(r.op) < max_events
        /\ r.op = "create_subscription" =>
              Len(sub_log[r.key]) + InflightFor(r.op, r.key) < max_calls
        /\ inflight' = inflight (+) SetToBag({Ticketed(r, tickets.issued)})
        /\ tickets' = [issued |-> tickets.issued + 1, answered |-> None]
        /\ response' = NoResponse
        /\ UNCHANGED <<stores, now, accepted, sub_log, last_report, signing,
                       running, stripe>>

\* The handler the router calls for a request, with the readings t1, t2, t3
\* of the clock it takes: accept_event takes three, create_subscription two,
\* the queries none.
Handle(r, t1, t2, t3) ==
    CASE r.op = "submit_event" ->
            accept_event(r.event[1], InflightFor(r.op, r.key) - 1, t1, t2, t3)
      [] r.op = "create_subscription" ->
            /\ t2 = t1
            /\ create_subscription(r.subscription[1], InflightFor(r.op, r.key) - 1,
                                   t1, t3)
      [] r.op = "get_compliance" ->
            /\ t1 = now /\ t2 = now /\ t3 = now
            /\ get_compliance(r.key, FALSE)
      [] r.op = "list_capabilities" ->
            /\ t1 = now /\ t2 = now /\ t3 = now
            /\ list_capabilities(None, None, None)

\* Mutant: a handler that waits until no other request is waiting.
ServeAlone(t) ==
    \E r \in BagToSet(inflight), t1, t2, t3 \in 0..MaxClock :
        /\ r.ticket = t
        /\ BagCardinality(inflight) = 1
        /\ ClockReads(t1, t2, t3)
        /\ Handle(r, t1, t2, t3)
        /\ inflight' = inflight (-) SetToBag({r})
        /\ tickets' = [tickets EXCEPT !.answered = Some(t)]
        /\ UNCHANGED <<signing, running, stripe>>

\* The event loop runs the handler of the request with ticket t, from its
\* first statement to its return.
Serve(t) ==
    \E r \in BagToSet(inflight), t1, t2, t3 \in 0..MaxClock :
        /\ r.ticket = t
        /\ ClockReads(t1, t2, t3)
        /\ Handle(r, t1, t2, t3)
        /\ inflight' = inflight (-) SetToBag({r})
        /\ tickets' = [tickets EXCEPT !.answered = Some(t)]
        /\ UNCHANGED <<signing, running, stripe>>

NextLive ==
    \/ Arrive(LiveRequests, MaxRequests, MaxInflight, MaxEvents, MaxSubscribeCalls)
    \/ \E t \in Tickets : Serve(t)

\* The event loop runs every task that is ready: a received request does not
\* wait for ever.
SpecLive == Init /\ [][NextLive]_vars /\ \A t \in Tickets : WF_vars(Serve(t))

(***************************************************************************)
(* The accessibility-events endpoints (main.py:1015-1101). The second      *)
(* handler registered for POST /v1/events, submit_accessibility_event, is  *)
(* never dispatched: the router hands the request to the first route that  *)
(* matches, accept_event. POST /v1/events/batch is handled by              *)
(* submit_accessibility_events_batch. Its body is an EventBatch of         *)
(* schemas/events.py; the name EventResponse its return statement uses is  *)
(* the class of models/broker.py, which main.py:46-48 imports after, and   *)
(* so in place of, the class of the same name of schemas/events.py.        *)
(***************************************************************************)

\* The EventType enumeration (schemas/events.py:11-37).
EventTypes ==
    {"user.requires_sign_language", "user.enabled_visual_only_mode",
     "user.enabled_captions", "user.changed_contrast", "user.changed_text_size",
     "motion_reduced_due_to_preference",
     "app.entered_audio_state", "app.entered_video_state",
     "app.lost_accessibility_support", "app.gained_accessibility_support",
     "accessibility_feature_used", "accessibility_feature_failed",
     "fallback_mode_activated",
     "compliance_check_passed", "compliance_check_failed",
     "validation_requested", "validation_completed"}

\* An event of a batch (schemas/events.py:40-48), its event_id, event_type
\* and source.
BatchEvent(event_id, event_type, source) ==
    [event_id |-> event_id, event_type |-> event_type, source |-> source]

\* Events of request bodies: two well-formed ones, one with an empty
\* event_id, one with an empty source, one whose event_type is no member of
\* the enumeration.
RawBatchEvents ==
    {BatchEvent("evt_001", "user.requires_sign_language", "user_456"),
     BatchEvent("evt_002", "app.entered_video_state", "app_123"),
     BatchEvent("", "user.requires_sign_language", "user_456"),
     BatchEvent("evt_003", "app.entered_video_state", ""),
     BatchEvent("evt_004", "user.sneezed", "user_456")}

\* The `events` lists of request bodies, of up to max_batch events.
Batches(max_batch) == UNION {[1..n -> RawBatchEvents] : n \in 0..max_batch}

\* Request validation of the EventBatch: every event_type is a member of
\* EventType; event_id and source are `str` without a length constraint.
ValidBatch(events) ==
    \A i \in 1..Len(events) : events[i].event_type \in EventTypes

\* The locals of submit_accessibility_events_batch before its loop
\* (main.py:1063-1065).
NoneCounted == [accepted |-> <<>>, rejected |-> <<>>, errors |-> <<>>]

\* One pass of the loop body (main.py:1067-1083): an event whose event_id or
\* source is empty is rejected, under its event_id or under "unknown_<n>";
\* any other is accepted. A member of EventType is never falsy.
CountEvent(counted, event) ==
    IF event.event_id = "" \/ event.source = ""
    THEN LET rejected_id ==
                IF event.event_id # "" THEN event.event_id
                ELSE "unknown_" \o ToString(Len(counted.rejected))
         IN  [counted EXCEPT
                !.rejected = Append(@, rejected_id),
                !.errors = Append(@, [event_id |-> rejected_id,
                                      error |-> "Missing required fields"])]
    ELSE [counted EXCEPT !.accepted = Append(@, event.event_id)]

RECURSIVE CountBatch(_, _)
\* The loop over batch.events (main.py:1066-1092), in batch order.
CountBatch(events, counted) ==
    IF events = <<>> THEN counted
    ELSE CountBatch(Tail(events), CountEvent(counted, Head(events)))

\* Mutant: the response built by the EventResponse of schemas/events.py,
\* which takes the keyword arguments as they are.
EventResponseOfSchemas(kwargs) == Some(kwargs)

\* EventResponse(**kwargs) where EventResponse is the class of
\* models/broker.py:76-82: event_id, status, timestamp and signature are
\* required, status is "accepted" or "rejected", keywords the class does not
\* declare are ignored. None stands for the ValidationError it raises.
EventResponseOf(kwargs) ==
    IF /\ {"event_id", "status", "timestamp", "signature"} \subseteq DOMAIN kwargs
       /\ kwargs.status \in {"accepted", "rejected"}
    THEN Some(EventResponse(kwargs.event_id, kwargs.status, kwargs.timestamp,
                            kwargs.signature))
    ELSE None

\* The handler: counts the batch, writes to no store, and returns the
\* EventResponse built from the counts at clock reading t; the exception the
\* constructor raises is answered 500 by the server.
submit_accessibility_events_batch(events, t) ==
    LET counted == CountBatch(events, NoneCounted)
        built == EventResponseOf(
                    [status |-> IF Len(counted.accepted) > 0 THEN "success"
                                ELSE "error",
                     accepted_count |-> Len(counted.accepted),
                     rejected_count |-> Len(counted.rejected),
                     event_ids |-> counted.accepted,
                     errors |-> counted.errors,
                     timestamp |-> t])
    IN  /\ response' =
              IF built = None
              THEN [op |-> "submit_accessibility_events_batch", code |-> 500,
                    batch |-> events]
              ELSE [op |-> "submit_accessibility_events_batch", code |-> 200,
                    batch |-> events, body |-> built[1]]
        /\ now' = t
        /\ UNCHANGED <<stores, accepted, sub_log, last_report>>

\* POST /v1/events/batch: a body that fails validation is answered 422
\* without a call of the handler.
post_events_batch(events, t) ==
    IF ValidBatch(events)
    THEN submit_accessibility_events_batch(events, t)
    ELSE /\ response' = [op |-> "submit_accessibility_events_batch",
                         code |-> 422, batch |-> events]
         /\ UNCHANGED <<stores, now, accepted, sub_log, last_report>>

\* One batch request, while the clock reads at most max_clock.
PostBatch(batches, max_clock) ==
    \E events \in batches, t \in 0..max_clock :
        /\ now <= t
        /\ post_events_batch(events, t)
        /\ UNCHANGED <<inflight, aside>>

(***************************************************************************)
(* The two event-submission paths: single events drawn narrowly, batches   *)
(* widely.                                                                 *)
(***************************************************************************)
BatchSingles ==
    {AccessibilityEvent("app-a", "visual_only", 1),
     AccessibilityEvent("app-b", "visual_only", 1)}

NextBatch ==
    \/ SubmitEvent(BatchSingles, MaxEvents, 0)
    \/ PostBatch(Batches(MaxBatch), 0)

SpecBatch == Init /\ [][NextBatch]_vars

(***************************************************************************)
(* StripeSubscriptionService (services/stripe_subscription.py): the dicts  *)
(* `subscriptions` and `usage`, record_verification_usage, and the five    *)
(* handlers handle_webhook dispatches a verified Stripe event to. Every    *)
(* method runs from its first line to its return without an await that     *)
(* yields. Money is counted in cents.                                      *)
(***************************************************************************)

\* PRICING_PLANS (models/subscription.py:144-208): id, verifications_included
\* and overage_cost of each plan.
PRICING_PLANS ==
    [starter |->
        [id |-> "starter", verifications_included |-> 100, overage_cost |-> 75],
     professional |->
        [id |-> "professional", verifications_included |-> 500, overage_cost |-> 50],
     enterprise |->
        [id |-> "enterprise", verifications_included |-> 10000, overage_cost |-> 25]]

\* PRICING_PLANS.get(plan_id)
get_plan(plan_id) ==
    IF HasKey(PRICING_PLANS, plan_id) THEN Some(PRICING_PLANS[plan_id]) ELSE None

\* Members of SubscriptionStatus (models/subscription.py:15-21).
SubscriptionStatus == {"active", "canceled", "past_due", "trialing", "incomplete"}

\* A SubscriptionInfo as _handle_checkout_completed builds it: the fields it
\* does not pass take their defaults.
SubscriptionInfo(subscription_id, customer_id, plan_id, status, period_start, period_end, verifications_remaining) ==
    [subscription_id |-> subscription_id, customer_id |-> customer_id,
     plan_id |-> plan_id, status |-> status,
     current_period_start |-> period_start, current_period_end |-> period_end,
     cancel_at_period_end |-> FALSE, verifications_used |-> 0,
     verifications_remaining |-> verifications_remaining]

\* A UsageReport as record_verification_usage builds it on the first use of
\* a subscription: overage_count and overage_cost take their defaults.
UsageReport(subscription_id, period_start, period_end, verifications_included) ==
    [subscription_id |-> subscription_id, period_start |-> period_start,
     period_end |-> period_end,
     verifications_included |-> verifications_included,
     verifications_used |-> 0, overage_count |-> 0, overage_cost |-> 0,
     breakdown_by_use_case |-> <<>>]

\* max(a, b)
Max(a, b) == IF a >= b THEN a ELSE b

\* Mutant: the remaining verifications counted down without the floor.
UseOneUnfloored(sub) ==
    [sub EXCEPT !.verifications_used = @ + 1,
                !.verifications_remaining = @ - 1]

\* The subscription after one use (stripe_subscription.py:305-306).
UseOne(sub) ==
    [sub EXCEPT !.verifications_used = @ + 1,
                !.verifications_remaining = Max(0, @ - 1)]

\* The usage report after one use of `use_case` under `plan`
\* (stripe_subscription.py:319-327): the overage is written only when the
\* use count exceeds the included count.
CountUse(report, use_case, plan) ==
    LET counted ==
            [report EXCEPT
                !.verifications_used = @ + 1,
                !.breakdown_by_use_case =
                    SetKey(@, use_case,
                           (IF HasKey(@, use_case) THEN @[use_case] ELSE 0) + 1)]
        over == counted.verifications_used - counted.verifications_included
    IN  IF counted.verifications_used > counted.verifications_included
        THEN [counted EXCEPT !.overage_count = over,
                             !.overage_cost = over * plan.overage_cost]
        ELSE counted

\* What a method of the service leaves alone.
broker ==
    <<stores, inflight, accepted, sub_log, last_report, signing, running, tickets>>

\* What a method of the service hands back: the value it returns, or the
\* exception it raises.
Returned(op, subscription_id, value) ==
    [op |-> op, subscription_id |-> subscription_id, returned |-> value]

Raised(op, subscription_id, exception) ==
    [op |-> op, subscription_id |-> subscription_id, raised |-> exception]

record_verification_usage(subscription_id, use_case) ==
    IF ~HasKey(subscriptions, subscription_id)
    THEN /\ response' = Returned("record_verification_usage", subscription_id,
                                 [error |-> "Subscription not found"])
         /\ UNCHANGED stripe
    ELSE LET sub == subscriptions[subscription_id]
             plan == get_plan(sub.plan_id)
         IN  IF plan = None
             THEN /\ response' = Returned("record_verification_usage",
                                          subscription_id,
                                          [error |-> "Plan not found"])
                  /\ UNCHANGED stripe
             ELSE LET used == UseOne(sub)
                      started ==
                          IF HasKey(usage, subscription_id)
                          THEN usage[subscription_id]
                          ELSE UsageReport(subscription_id,
                                           sub.current_period_start,
                                           sub.current_period_end,
                                           plan[1].verifications_included)
                      report == CountUse(started, use_case, plan[1])
                  IN  /\ subscriptions' = SetKey(subscriptions, subscription_id, used)
                      /\ usage' = SetKey(usage, subscription_id, report)
                      /\ response' =
                            Returned("record_verification_usage", subscription_id,
                                [success |-> TRUE,
                                 verifications_used |-> used.verifications_used,
                                 verifications_remaining |->
                                    used.verifications_remaining,
                                 overage |-> report.overage_count > 0])

\* A checkout session: its subscription, its customer, and the plan_id of
\* its metadata when it carries one.
Session(subscription, customer, plan_id) ==
    [subscription |-> subscription, customer |-> customer, plan_id |-> plan_id]

\* checkout.session.completed: a record of the subscription is stored, over
\* the one the dict holds, when the plan of the metadata ("starter" when it
\* names none) is a plan. The clock is read at line 230 (t1) and again at
\* line 231 (t2); it is not read when the plan is unknown.
handle_checkout_completed(session, t1, t2) ==
    LET plan == get_plan(IF session.plan_id = None THEN "starter"
                         ELSE session.plan_id[1])
    IN  /\ IF plan = None
           THEN /\ t1 = now /\ t2 = now
                /\ UNCHANGED <<subscriptions, now>>
           ELSE /\ subscriptions' =
                      SetKey(subscriptions, session.subscription,
                             SubscriptionInfo(session.subscription, session.customer,
                                              plan[1].id, "active", t1, t2,
                                              plan[1].verifications_included))
                /\ now' = t2
        /\ response' = Returned("_handle_checkout_completed",
                                session.subscription, None)
        /\ UNCHANGED usage

\* customer.subscription.updated: SubscriptionStatus(status) raises a
\* ValueError when status is no member.
handle_subscription_updated(subscription_id, status) ==
    IF HasKey(subscriptions, subscription_id)
    THEN IF status \in SubscriptionStatus
         THEN /\ subscriptions' =
                    [subscriptions EXCEPT ![subscription_id].status = status]
              /\ response' = Returned("_handle_subscription_updated",
                                      subscription_id, None)
              /\ UNCHANGED <<usage, now>>
         ELSE /\ response' = Raised("_handle_subscription_updated",
                                    subscription_id, "ValueError")
              /\ UNCHANGED <<stripe, now>>
    ELSE /\ response' = Returned("_handle_subscription_updated",
                                 subscription_id, None)
         /\ UNCHANGED <<stripe, now>>

\* customer.subscription.deleted and invoice.payment_failed: the status of a
\* known subscription is set.
SetStatus(op, subscription_id, status) ==
    /\ subscriptions' =
          IF HasKey(subscriptions, subscription_id)
          THEN [subscriptions EXCEPT ![subscription_id].status = status]
          ELSE subscriptions
    /\ response' = Returned(op, subscription_id, None)
    /\ UNCHANGED <<usage, now>>

handle_subscription_deleted(subscription_id) ==
    SetStatus("_handle_subscription_deleted", subscription_id, "canceled")

handle_payment_failed(subscription_id) ==
    SetStatus("_handle_payment_failed", subscription_id, "past_due")

\* invoice.payment_succeeded: the remaining verifications of a known
\* subscription are set back to what its plan includes and its period starts
\* at the clock reading t of line 266; the clock is not read otherwise.
handle_payment_succeeded(subscription_id, t) ==
    /\ IF /\ HasKey(subscriptions, subscription_id)
          /\ get_plan(subscriptions[subscription_id].plan_id) # None
       THEN /\ subscriptions' =
                  [subscriptions EXCEPT
                      ![subscription_id].verifications_remaining =
                          get_plan(subscriptions[subscription_id].plan_id)[1]
                              .verifications_included,
                      ![subscription_id].current_period_start = t]
            /\ now' = t
       ELSE /\ t = now
            /\ UNCHANGED <<subscriptions, now>>
    /\ response' = Returned("_handle_payment_succeeded", subscription_id, None)
    /\ UNCHANGED usage

\* The uses the usage report of a subscription counts, 0 without a report.
UsesOf(subscription_id) ==
    IF HasKey(usage, subscription_id)
    THEN usage[subscription_id].verifications_used
    ELSE 0

\* One use of a subscription of `ids`, while its report counts fewer than
\* `max_used` uses.
RecordUsage(ids, use_cases, max_used) ==
    \E subscription_id \in ids, use_case \in use_cases :
        /\ UsesOf(subscription_id) < max_used
        /\ record_verification_usage(subscription_id, use_case)
        /\ UNCHANGED <<broker, now>>

\* A checkout completes for a subscription whose report counts fewer than
\* `max_used` uses, while the clock reads at most `max_clock`.
CheckoutCompleted(sessions, max_used, max_clock) ==
    \E session \in sessions, t1, t2 \in 0..max_clock :
        /\ UsesOf(session.subscription) < max_used
        /\ ClockReads(t1, t1, t2)
        /\ handle_checkout_completed(session, t1, t2)
        /\ UNCHANGED broker

SubscriptionUpdated(ids, statuses) ==
    \E subscription_id \in ids, status \in statuses :
        /\ handle_subscription_updated(subscription_id, status)
        /\ UNCHANGED broker

SubscriptionDeleted(ids) ==
    \E subscription_id \in ids :
        /\ handle_subscription_deleted(subscription_id)
        /\ UNCHANGED broker

\* A payment succeeds for a subscription whose report counts fewer than
\* `max_used` uses, while the clock reads at most `max_clock`.
PaymentSucceeded(ids, max_used, max_clock) ==
    \E subscription_id \in ids, t \in 0..max_clock :
        /\ UsesOf(subscription_id) < max_used
        /\ now <= t
        /\ handle_payment_succeeded(subscription_id, t)
        /\ UNCHANGED broker

PaymentFailed(ids) ==
    \E subscription_id \in ids :
        /\ handle_payment_failed(subscription_id)
        /\ UNCHANGED broker

(***************************************************************************)
(* One subscription of the starter plan from its checkout past the uses    *)
(* its plan includes, with calls for a subscription the service never      *)
(* learns of; a second use case and repeated checkouts while the report is *)
(* short.                                                                  *)
(***************************************************************************)
StripeIds == {"sub_1", "sub_9"}

StripeSessions ==
    {Session("sub_1", "cus_1", None), Session("sub_1", "cus_1", Some("platinum"))}

NextStripe ==
    \/ CheckoutCompleted(StripeSessions, MaxShallow, MaxClock)
    \/ RecordUsage(StripeIds, {"healthcare"}, MaxUsed)
    \/ RecordUsage(StripeIds, {"business"}, MaxShallow)
    \/ SubscriptionUpdated(StripeIds, {"canceled", "paused"})
    \/ SubscriptionDeleted(StripeIds)
    \/ PaymentSucceeded(StripeIds, MaxShallow, MaxClock)
    \/ PaymentFailed(StripeIds)

SpecStripe == Init /\ [][NextStripe]_vars

(***************************************************************************)
(* Properties.                                                             *)
(***************************************************************************)
\* The event log restricted to one application, in log order.
EventsFor(app_id) ==
    LET mine(r) == r.event.app_id = app_id
    IN  SelectSeq(events_store, mine)

\* The events_count the broker holds for an application, 0 when it holds none.
TrackedCount(app_id) ==
    IF HasKey(compliance_store, app_id)
    THEN compliance_store[app_id].events_count
    ELSE 0

\* C1: after N events were accepted for an app_id, the log restricted to that
\* app_id holds exactly N records, and they are the accepted events in the
\* order of acceptance, whatever client timestamps they carry.
C1_AcceptanceOrder ==
    \A a \in AppIds :
        /\ Len(EventsFor(a)) = Len(accepted[a])
        /\ \A i \in 1..Len(accepted[a]) :
              EventsFor(a)[i].event_id = accepted[a][i].event_id

\* C1 witness: an application with two accepted events, the later one carrying
\* the earlier client timestamp.
C1_Witness ==
    \E a \in AppIds :
        /\ Len(accepted[a]) = 2
        /\ Len(EventsFor(a)) = 2
        /\ EventsFor(a)[1].event.timestamp > EventsFor(a)[2].event.timestamp

\* C2: an appended event record is never changed or removed: in every step
\* of every operation the log before is a prefix of the log after.
C2_AppendOnly == [][IsPrefix(events_store, events_store')]_vars

\* C2 witness: two events are stored, a subscription was created after the
\* first of them was answered, and the last operation was a compliance query.
C2_Witness ==
    /\ Len(events_store) >= 2
    /\ Len(subscriptions_store) >= 1
    /\ response.op = "get_compliance"
    /\ response.code = 200

\* C3: for every app_id the events_count equals the number of stored events
\* of that app_id, and only applications with a stored event are tracked.
C3_CountMatchesLog ==
    /\ \A a \in AppIds : TrackedCount(a) = Len(EventsFor(a))
    /\ \A a \in DOMAIN compliance_store : a \in AppIds /\ Len(EventsFor(a)) >= 1

\* C3 witness: two applications are tracked, one of them with two events.
C3_Witness ==
    /\ DOMAIN compliance_store = AppIds
    /\ \E a \in AppIds : TrackedCount(a) = 2 /\ Len(EventsFor(a)) = 2

\* C4: under concurrent submit_event calls no counter update is lost: after K
\* calls for an app_id have completed, its events_count is K.
C4_NoLostUpdate ==
    \A a \in AppIds : TrackedCount(a) = Len(accepted[a])

\* C4 witness: two calls for one app_id completed, the first of them while the
\* other was already received and waiting.
C4_Witness ==
    \E a \in AppIds :
        /\ Len(accepted[a]) = 2
        /\ accepted[a][1].waiting >= 1
        /\ TrackedCount(a) = 2

\* The stored subscription records of one consumer_id, as positions.
SubscriptionsOf(consumer_id) ==
    {i \in 1..Len(subscriptions_store) :
        subscriptions_store[i].subscription.consumer_id = consumer_id}

\* C5: when a subscription is stored for a consumer_id, a further
\* create_subscription with that consumer_id answers 409 and leaves the
\* subscription store as it was (same records, same ids, created_at, status).
C5_DuplicateRejected ==
    [][\A c \in ConsumerIds :
          (SubscriptionsOf(c) # {} /\ sub_log'[c] # sub_log[c])
          => /\ response'.op = "create_subscription"
             /\ response'.code = 409
             /\ subscriptions_store' = subscriptions_store]_vars

\* C5 witness: a create_subscription was answered 409 for a consumer whose
\* stored subscription was created at an earlier clock reading.
C5_Witness ==
    /\ response.op = "create_subscription"
    /\ response.code = 409
    /\ \E i \in SubscriptionsOf(response.detail) :
          subscriptions_store[i].created_at < now

\* C6: under concurrent create_subscription requests every state holds at most
\* one active subscription per consumer_id, and of the calls made for one
\* consumer_id exactly one, the first to run, succeeds; the others answer 409.
C6_OneSubscriptionPerConsumer ==
    \A c \in ConsumerIds :
        /\ Cardinality({i \in SubscriptionsOf(c) :
                          subscriptions_store[i].status = "active"}) <= 1
        /\ \A i \in 1..Len(sub_log[c]) :
              sub_log[c][i].code = IF i = 1 THEN 201 ELSE 409

\* C6 witness: two requests of one consumer_id were waiting together; the one
\* run first was answered 201 and the other 409.
C6_Witness ==
    \E c \in ConsumerIds :
        /\ Len(sub_log[c]) = 2
        /\ sub_log[c][1].waiting >= 1
        /\ sub_log[c][1].code = 201
        /\ sub_log[c][2].code = 409
        /\ Cardinality(SubscriptionsOf(c)) = 1

\* The response is a compliance report.
IsReport(resp) == resp.op = "get_compliance" /\ resp.code = 200

\* C7: a report for an application with n >= 1 events has level gold when
\* n >= 200, silver when 50 <= n < 200 and bronze when n < 50, and no other
\* level; the n it reports is the application's events_count.
C7_LevelThresholds ==
    IsReport(response) =>
        LET n == response.body.events_count
            level == response.body.compliance_level
        IN  /\ n = TrackedCount(response.body.app_id)
            /\ n >= 1
            /\ level \in {"bronze", "silver", "gold"}
            /\ n >= 200 => level = "gold"
            /\ (n >= 50 /\ n < 200) => level = "silver"
            /\ n < 50 => level = "bronze"

\* C7 witness: the report after the 200th event, with level gold.
C7_Witness ==
    /\ IsReport(response)
    /\ response.body.events_count = 200
    /\ response.body.compliance_level = "gold"

Rank(level) ==
    CASE level = "bronze" -> 1
      [] level = "silver" -> 2
      [] level = "gold" -> 3
      [] OTHER -> 0

\* C8: the level reported for an app_id by successive get_compliance calls
\* never decreases under bronze < silver < gold.
C8_LevelNeverDecreases ==
    [][\A a \in AppIds :
          (last_report[a] # None /\ last_report'[a] # None)
          => Rank(last_report'[a][1].compliance_level)
                >= Rank(last_report[a][1].compliance_level)]_vars

\* C8 witness: an application whose last report says gold and that has gone on
\* to receive a further event.
C8_Witness ==
    \E a \in AppIds :
        /\ last_report[a] # None
        /\ last_report[a][1].compliance_level = "gold"
        /\ TrackedCount(a) > 200

\* C9: a report says non-compliant exactly when the application's violation
\* list holds a violation of severity critical, and compliant otherwise,
\* whatever the events_count and level.
C9_StatusFromCriticalViolations ==
    IsReport(response) =>
        LET violations == compliance_store[response.body.app_id].violations
            critical == \E i \in 1..Len(violations) :
                            violations[i].severity = "critical"
        IN  /\ response.body.status = "non-compliant" <=> critical
            /\ response.body.status = "compliant" <=> ~critical

\* C9 witness: a report that is gold and non-compliant at once.
C9_Witness ==
    /\ IsReport(response)
    /\ response.body.compliance_level = "gold"
    /\ response.body.status = "non-compliant"

\* C10: a report carries a certificate_url only when its status is compliant,
\* and a report with the same app_id and level as the previous report of that
\* app_id carries the same URL when both carry one.
C10_CertificateUrl ==
    [][IsReport(response') =>
          LET r == response'.body
              before == last_report[r.app_id]
          IN  /\ r.status # "compliant" => r.certificate_url = None
              /\ (/\ before # None
                  /\ before[1].compliance_level = r.compliance_level
                  /\ before[1].certificate_url # None
                  /\ r.certificate_url # None)
                 => r.certificate_url = before[1].certificate_url]_vars

\* C10 witness: a non-compliant report without certificate for an application
\* that has events beyond the silver threshold.
C10_Witness ==
    /\ IsReport(response)
    /\ response.body.status = "non-compliant"
    /\ response.body.certificate_url = None
    /\ response.body.compliance_level = "silver"

\* The application a get_compliance response is about.
ReportedApp(resp) == IF resp.code = 404 THEN resp.detail ELSE resp.body.app_id

\* The stored capability declarations of one application, as positions.
DeclarationsOf(app_id) ==
    {i \in 1..Len(capabilities_store) : capabilities_store[i].app_id = app_id}

\* C11: get_compliance for an app_id with no recorded event and no capability
\* declaration answers 404 and leaves every store as it was; no report ever
\* carries an events_count of zero.
C11_UnknownApplication ==
    [][response'.op = "get_compliance" =>
          LET a == ReportedApp(response')
          IN  /\ (EventsFor(a) = <<>> /\ DeclarationsOf(a) = {})
                 => /\ response'.code = 404
                    /\ stores' = stores
              /\ response'.code = 200 => response'.body.events_count # 0]_vars

\* C11 witness: a 404 for an application without events while the broker
\* already tracks another application.
C11_Witness ==
    /\ response.op = "get_compliance"
    /\ response.code = 404
    /\ EventsFor(response.detail) = <<>>
    /\ compliance_store # <<>>

\* An app_id string that fails one of the constraints: too short, too long,
\* a character outside the class, empty.
IllFormedAppIds ==
    {Join(RawShort), Join(RawLong), Join(RawSpace), Join(RawColon),
     Join(RawDot), Join(RawEmpty)}

\* C12: an event whose app_id is not 3 to 64 characters of [a-zA-Z0-9_-], or
\* whose intent is not one of the eight intents, is rejected before any state
\* is touched: the rejecting step leaves the stores, the clock and the record
\* of accepted events as they were, and the log never holds such an event.
C12_InvalidEventRejected ==
    [][response'.op = "accept_event" =>
          /\ response'.code = 422
             => /\ stores' = stores
                /\ accepted' = accepted
                /\ now' = now
          /\ \A i \in 1..Len(events_store') :
                /\ events_store'[i].event.app_id \notin IllFormedAppIds
                /\ events_store'[i].event.intent \in
                      {"visual_only", "sign_language", "reduced_motion",
                       "high_contrast", "captions_mandatory", "no_audio_cues",
                       "visual_alerts", "text_primary"}]_vars

\* C12 witness: a request with a two-character app_id and a valid intent was
\* answered 422 after an event with the three-character app_id was stored.
C12_Witness ==
    /\ response.op = "accept_event"
    /\ response.code = 422
    /\ response.detail.app_id = RawShort
    /\ response.detail.intent = "visual_only"
    /\ \E i \in 1..Len(events_store) : events_store[i].event.app_id = Join(RawMin)

C14_SignedDataInjective ==
    signing # <<>> =>
        (signing[1].data = signing[2].data
            => signing[1].arguments = signing[2].arguments)

\* C14 witness: two computations whose arguments differ in the intent only,
\* with different signed data.
C14_Witness ==
    /\ signing # <<>>
    /\ signing[1].arguments.event_id = signing[2].arguments.event_id
    /\ signing[1].arguments.event.app_id = signing[2].arguments.event.app_id
    /\ signing[1].arguments.event.timestamp = signing[2].arguments.event.timestamp
    /\ signing[1].arguments.event.intent # signing[2].arguments.event.intent
    /\ signing[1].data # signing[2].data

\* The response is an accepted event.
IsAccepted(resp) == resp.op = "accept_event" /\ resp.code = 201

\* C15: for an accepted event the stored signature and the signature in the
\* response are the same, and are the signature of event_id, app_id, intent
\* and timestamp of the stored event; the event_id in the response is the
\* stored event_id and the response status is accepted.
C15_StoredSignatureIsReturned ==
    IsAccepted(response) =>
        LET stored == events_store[Len(events_store)]
        IN  /\ response.body.status = "accepted"
            /\ response.body.event_id = stored.event_id
            /\ response.body.signature = stored.signature
            /\ stored.signature =
                  "sha256(" \o stored.event_id \o ":" \o stored.event.app_id
                            \o ":" \o stored.event.intent \o ":"
                            \o DatetimeStr(stored.event.timestamp) \o ")"

\* C15 witness: the second accepted event, answered at a clock reading that
\* is not the timestamp the event carries.
C15_Witness ==
    /\ IsAccepted(response)
    /\ Len(events_store) = 2
    /\ response.body.event_id = events_store[2].event_id
    /\ response.body.timestamp # events_store[2].event.timestamp
    /\ events_store[2].processed_at # events_store[2].event.timestamp

\* The elements of a list.
Elements(list) == {list[i] : i \in 1..Len(list)}

\* The match set the claim describes for an event of an application at
\* `level`: the consumer_ids of the active subscriptions whose event_types
\* hold the event's intent and whose filter, when present, is satisfied in
\* every field it carries.
ClaimedMatch(event, level) ==
    LET satisfied(field, value) == field = None \/ value \in Elements(field[1])
        admits(f) == /\ satisfied(f.app_ids, event.app_id)
                     /\ satisfied(f.intents, event.intent)
                     /\ satisfied(f.compliance_levels, level)
        matches(s) == /\ s.status = "active"
                      /\ event.intent \in Elements(s.subscription.event_types)
                      /\ s.subscription.filter = None
                            \/ admits(s.subscription.filter[1])
    IN  {subscriptions_store[i].subscription.consumer_id :
            i \in {j \in 1..Len(subscriptions_store) : matches(subscriptions_store[j])}}

\* C16: the consumers an accepted event is matched to are exactly the
\* consumer_ids of the active subscriptions whose event_types hold the event's
\* intent and whose present filter fields are all satisfied.
C16_MatchSet ==
    IsAccepted(response) =>
        LET stored == events_store[Len(events_store)]
            level == ComplianceLevel(TrackedCount(stored.event.app_id) - 1)
        IN  MatchedConsumers(stored.event) = ClaimedMatch(stored.event, level)

\* C17: an accepted event is matched under the level in force before its own
\* increment: the 50th event of an application is matched as bronze, so it
\* reaches a consumer subscribed to that intent at level bronze.
C17_MatchedBeforeIncrement ==
    IsAccepted(response) =>
        LET stored == events_store[Len(events_store)]
            n == TrackedCount(stored.event.app_id)
        IN  n = SilverThreshold
            => /\ ComplianceLevel(n - 1) = "bronze"
               /\ ClaimedMatch(stored.event, "bronze")
                     \subseteq MatchedConsumers(stored.event)

\* C18: the registry holds at most one declaration per app_id, and after
\* capabilities were declared for an app_id the registry's declarations of
\* that app_id are the one just declared, which is what a query for the
\* app_id returns.
C18_OneDeclarationPerApp ==
    [][/\ \A a \in AppIds : Cardinality(DeclarationsOf(a)') <= 1
       /\ response'.op = "declare_capabilities"
          => FilteredCapabilities(capabilities_store',
                                  Some(response'.request.app_id), None, None)
                = <<response'.request>>]_vars

\* The declarations of `store` a query keeps when every filter in `filters`
\* (positions of the query whose filter counts) must hold.
Keeps(store, query, filters) ==
    LET keep(c) ==
            /\ 1 \in filters => c.app_id = query[1][1]
            /\ 2 \in filters => c.compliance_level = query[2][1]
            /\ 3 \in filters => query[3][1] \in Elements(c.capabilities)
    IN  SelectSeq(store, keep)

TrackingOf(app_id) ==
    IF HasKey(compliance_store, app_id) THEN Some(compliance_store[app_id]) ELSE None

\* C20: a submit_event for application A, accepted or rejected, leaves the
\* stored events and the tracking entry of every other application B as
\* they were.
C20_OtherApplicationsUntouched ==
    [][response'.op = "accept_event" =>
          \A b \in ObservedAppIds :
              (\/ response'.code = 422
               \/ /\ response'.code = 201
                  /\ events_store'[Len(events_store')].event.app_id # b)
              => /\ EventsFor(b)' = EventsFor(b)
                 /\ TrackingOf(b)' = TrackingOf(b)]_vars

\* C20 witness: an event of app-b was accepted while app-a holds two events
\* and its tracking entry counts two.
C20_Witness ==
    /\ IsAccepted(response)
    /\ events_store[Len(events_store)].event.app_id = "app-b"
    /\ Len(EventsFor("app-a")) = 2
    /\ TrackedCount("app-a") = 2

\* C21: create_subscription succeeds exactly when no subscription is stored
\* for the consumer_id; on success the store gains one record, status active,
\* under a subscription_id no stored record has, the response carries that
\* subscription_id with status active, and the records stored before stay as
\* they were.
C21_SubscribeSucceedsWhenNew ==
    [][\A c \in ConsumerIds :
          sub_log'[c] # sub_log[c]
          => /\ response'.op = "create_subscription"
             /\ response'.code = 201 <=> SubscriptionsOf(c) = {}
             /\ response'.code = 201
                => LET n == Len(subscriptions_store)
                       new == subscriptions_store'[n + 1]
                   IN  /\ Len(subscriptions_store') = n + 1
                       /\ SubSeq(subscriptions_store', 1, n) = subscriptions_store
                       /\ new.status = "active"
                       /\ new.subscription.consumer_id = c
                       /\ \A i \in 1..n :
                             subscriptions_store[i].subscription_id
                                # new.subscription_id
                       /\ response'.body.subscription_id = new.subscription_id
                       /\ response'.body.status = "active"]_vars

\* C21 witness: a second consumer subscribed with success while the first
\* consumer's subscription was stored.
C21_Witness ==
    /\ response.op = "create_subscription"
    /\ response.code = 201
    /\ Len(subscriptions_store) = 2
    /\ response.body.subscription_id = subscriptions_store[2].subscription_id
    /\ subscriptions_store[1].subscription.consumer_id
          # subscriptions_store[2].subscription.consumer_id

\* C22: a tracking entry exists for an app_id exactly when an event has been
\* accepted for it; no step deletes an entry; an entry's events_count is at
\* least 1; and each step raises events_count by the number of events it
\* accepted for the app_id, 0 or 1, so the count never decreases.
C22_TrackingLifecycle ==
    [][\A a \in ObservedAppIds :
          LET newly == Len(accepted'[a]) - Len(accepted[a])
          IN  /\ HasKey(compliance_store, a) <=> Len(accepted[a]) >= 1
              /\ HasKey(compliance_store', a) <=> Len(accepted'[a]) >= 1
              /\ HasKey(compliance_store, a) => HasKey(compliance_store', a)
              /\ HasKey(compliance_store', a)
                    => compliance_store'[a].events_count >= 1
              /\ newly \in {0, 1}
              /\ TrackedCount(a)' = TrackedCount(a) + newly]_vars

\* C22 witness: an application with two accepted events and a count of two,
\* after a request for it was rejected and its report was read.
C22_Witness ==
    /\ Len(accepted["app"]) = 2
    /\ TrackedCount("app") = 2
    /\ last_report["app"] # None
    /\ response.op = "accept_event"
    /\ response.code = 422

\* C23: the statements of a run happen in the order sign, append, increment:
\* every appended record carries the signature of its fields, and at every
\* statement of every run the events_count of an app_id is at most the number
\* of events appended for it, one less only between the append of a run and
\* its increment.
C23_CountNeverAheadOfLog ==
    /\ \A i \in 1..Len(events_store) :
          events_store[i].signature
             = Sha256Hex(SignatureData(events_store[i].event_id, events_store[i].event))
    /\ \A a \in AppIds :
          /\ TrackedCount(a) <= Len(EventsFor(a))
          /\ TrackedCount(a) < Len(EventsFor(a))
             => /\ running # None
                /\ running[1].event.app_id = a
                /\ running[1].statement \in {"track", "count"}
                /\ TrackedCount(a) = Len(EventsFor(a)) - 1

\* C23 witness: the second event of an application is appended and signed
\* and not yet counted.
C23_Witness ==
    /\ AtStatement("count")
    /\ running[1].signature # ""
    /\ Len(EventsFor(running[1].event.app_id)) = 2
    /\ TrackedCount(running[1].event.app_id) = 1

BrokerOperations ==
    {"accept_event", "create_subscription", "get_compliance", "list_capabilities"}

\* The violation list the broker holds for an application, empty when it
\* holds no entry.
ViolationsOf(app_id) ==
    IF HasKey(compliance_store, app_id)
    THEN compliance_store[app_id].violations
    ELSE <<>>

\* C24: a step of a broker operation leaves every application's violation
\* list as it was; any step at all only appends to it; and a report made
\* while no violation was ever fed has status compliant and carries a
\* certificate_url.
C24_ViolationsOnlyFromFeed ==
    [][/\ \A a \in AppIds :
             /\ IsPrefix(ViolationsOf(a), ViolationsOf(a)')
             /\ response'.op \in BrokerOperations
                => ViolationsOf(a)' = ViolationsOf(a)
       /\ (IsReport(response') /\ \A a \in AppIds : ViolationsOf(a)' = <<>>)
          => /\ response'.body.status = "compliant"
             /\ response'.body.certificate_url # None]_vars

\* C24 witness: an event was accepted for an application that holds a
\* violation, and the violation is still there.
C24_Witness ==
    /\ IsAccepted(response)
    /\ Len(ViolationsOf("app-a")) = 1
    /\ TrackedCount("app-a") >= 2
    /\ compliance_store["app-a"].violations[1].timestamp = 0

\* The fields of a report that do not depend on the `detailed` flag.
Summary(report) ==
    <<report.compliance_level, report.status, report.events_count,
      report.certificate_url>>

\* C25: a step of get_compliance or list_capabilities, answered with success
\* or with an error, leaves the four stores as they were, and a report that
\* follows a report of the same app_id with nothing in between carries the
\* same compliance_level, status, events_count and certificate_url.
C25_QueriesReadOnly ==
    [][/\ response'.op \in {"get_compliance", "list_capabilities"}
          => stores' = stores
       /\ (/\ IsReport(response)
           /\ IsReport(response')
           /\ response'.body.app_id = response.body.app_id)
          => Summary(response'.body) = Summary(response.body)]_vars

\* C25 witness: a detailed, non-compliant report of an application with two
\* events, while the other application has never had a report.
C25_Witness ==
    /\ IsReport(response)
    /\ response.body.status = "non-compliant"
    /\ response.body.violations # <<>>
    /\ last_report["app-a"] # None
    /\ last_report["app-b"] = None
    /\ response.body.events_count = 2

\* The signature a verifier recomputes from an EventResponse and the app_id
\* and intent of the event it submitted.
Recomputed(resp, event) ==
    Sha256Hex(SignatureData(resp.event_id,
                            [event EXCEPT !.timestamp = resp.timestamp]))

\* C26: the timestamp in the response of an accepted event is the timestamp
\* that was signed and stored with the event, so the signature recomputed from
\* the response's event_id and timestamp and the submitted app_id and intent
\* is the signature in the response.
C26_ResponseTimestampIsSigned ==
    IsAccepted(response) =>
        LET stored == events_store[Len(events_store)]
        IN  /\ response.body.timestamp = stored.event.timestamp
            /\ Recomputed(response.body, stored.event) = response.body.signature

\* The event ids a response reports to its caller as accepted: the event_id
\* of an accepted single submission, the event_ids of an answered batch.
Acknowledged(resp) ==
    IF IsAccepted(resp) THEN {resp.body.event_id}
    ELSE IF resp.op = "submit_accessibility_events_batch" /\ resp.code = 200
    THEN IF "event_ids" \in DOMAIN resp.body
         THEN Elements(resp.body.event_ids)
         ELSE {resp.body.event_id}
    ELSE {}

\* C27: every event a submission endpoint, single or batch, reports to the
\* caller as accepted is a record of the event log, and the events_count of
\* its application counts the application's records, this one included.
C27_AcknowledgedIsRecorded ==
    \A event_id \in Acknowledged(response) :
        \E i \in 1..Len(events_store) :
            /\ events_store[i].event_id = event_id
            /\ TrackedCount(events_store[i].event.app_id) =
                  Len(EventsFor(events_store[i].event.app_id))

\* C27 witness: two single submissions of one application were answered
\* accepted and are recorded, and a batch of two well-formed events has just
\* been answered.
C27_Witness ==
    /\ Len(accepted["app-a"]) = 2
    /\ Len(EventsFor("app-a")) = 2
    /\ response.op = "submit_accessibility_events_batch"
    /\ response.code \notin {0, 422}
    /\ Len(response.batch) = 2
    /\ \A i \in 1..2 : /\ response.batch[i].event_id # ""
                       /\ response.batch[i].source # ""

\* The event_ids of the events of a batch that carry an event_id and a
\* source, in batch order.
WellFormedIds(events) ==
    LET wellFormed(e) == e.event_id # "" /\ e.source # ""
        kept == SelectSeq(events, wellFormed)
    IN  [i \in 1..Len(kept) |-> kept[i].event_id]

\* C29: a batch that passes validation is answered with every event counted
\* once: accepted_count + rejected_count is the number of events, event_ids
\* holds the accepted events' ids in batch order, errors has one entry for
\* each rejected event, and status is success exactly when an event was
\* accepted.
C29_BatchCountedIndividually ==
    (/\ response.op = "submit_accessibility_events_batch"
     /\ response.code # 422) =>
        /\ response.code = 200
        /\ "event_ids" \in DOMAIN response.body
        /\ response.body.accepted_count + response.body.rejected_count =
              Len(response.batch)
        /\ response.body.event_ids = WellFormedIds(response.batch)
        /\ response.body.accepted_count = Len(response.body.event_ids)
        /\ Len(response.body.errors) = response.body.rejected_count
        /\ response.body.status = "success" <=> response.body.accepted_count > 0

RECURSIVE SumOver(_, _)
\* The sum of the values a dict holds under `keys`.
SumOver(d, keys) ==
    IF keys = {} THEN 0
    ELSE LET k == CHOOSE x \in keys : TRUE
         IN  d[k] + SumOver(d, keys \ {k})

\* The handlers that read the subscription they are called for and create
\* none.
StatusHandlers ==
    {"_handle_subscription_updated", "_handle_subscription_deleted",
     "_handle_payment_succeeded", "_handle_payment_failed"}

\* C30: after every call of record_verification_usage or of a webhook
\* handler, each known subscription has verifications_remaining >= 0 and each
\* usage report has overage_count = max(0, verifications_used -
\* verifications_included) and a breakdown_by_use_case that sums to
\* verifications_used; record_verification_usage called for a subscription_id
\* the service does not know returns an error, and it and the handlers called
\* for such an id leave `subscriptions` and `usage` as they were.
C30_UsageAccounting ==
    [][/\ \A id \in DOMAIN subscriptions' :
            subscriptions'[id].verifications_remaining >= 0
       /\ \A id \in DOMAIN usage' :
            /\ usage'[id].overage_count =
                  Max(0, usage'[id].verifications_used
                            - usage'[id].verifications_included)
            /\ SumOver(usage'[id].breakdown_by_use_case,
                       DOMAIN usage'[id].breakdown_by_use_case) =
                  usage'[id].verifications_used
       /\ (/\ response'.op = "record_verification_usage"
           /\ ~HasKey(subscriptions, response'.subscription_id))
          => /\ "error" \in DOMAIN response'.returned
             /\ stripe' = stripe
       /\ (/\ response'.op \in StatusHandlers
           /\ ~HasKey(subscriptions, response'.subscription_id))
          => stripe' = stripe]_vars

\* C30 witness: a subscription used past what its plan includes, under two
\* use cases, with no verification remaining and an overage in its report,
\* right after a use was recorded for a subscription the service does not
\* know.
C30_Witness ==
    /\ HasKey(subscriptions, "sub_1")
    /\ HasKey(usage, "sub_1")
    /\ subscriptions["sub_1"].verifications_remaining = 0
    /\ usage["sub_1"].verifications_used > usage["sub_1"].verifications_included
    /\ usage["sub_1"].overage_count > 0
    /\ DOMAIN usage["sub_1"].breakdown_by_use_case = {"healthcare", "business"}
    /\ response.op = "record_verification_usage"
    /\ response.subscription_id = "sub_9"
    /\ "error" \in DOMAIN response.returned

\* The request with ticket t has just been answered: it waits no longer and
\* the caller holds the handler's response.
Answered(t) ==
    /\ tickets.answered = Some(t)
    /\ ~Waiting(t)
    /\ response.op \in {"accept_event", "create_subscription", "get_compliance",
                        "list_capabilities"}
    /\ response.code \in {200, 201, 404, 409}

\* C28: under any interleaving of submit_event, create_subscription,
\* get_compliance and list_capabilities requests, every request received is
\* eventually answered with a response: no state is reached in which a
\* waiting request can wait for ever, for another request or for nothing.
C28_EveryRequestAnswered ==
    \A t \in Tickets : Waiting(t) ~> Answered(t)

\* C28 witness: a request has just been answered while a request that arrived
\* before it still waits.
C28_Witness ==
    /\ tickets.answered # None
    /\ response.op # "none"
    /\ \E t \in Tickets : Waiting(t) /\ t < tickets.answered[1]

====
